---- MODULE Spec2Model ----
(***************************************************************************)
(* A model of pmr2.compat's command line front end                         *)
(* (src/src/pmr2/compat/cli.py): the signature-driven parser builder       *)
(* generate_cmd_parser, the dispatcher main, and the five handlers         *)
(* citation, cmeta, codegen, docgen and maths with the files they write.   *)
(*                                                                         *)
(* Python values.  Every Python string of the program is a tuple of TLA+   *)
(* strings.  Identifiers and flags are tuples of characters, so that       *)
(* str.replace('_', '-') and argparse's inverse are computed character by  *)
(* character.  Other strings are tuples of tokens whose concatenation is   *)
(* the string, so that os.path.join and '%s' formatting are concatenation. *)
(* The input file and the output directory exist, as the program assumes.  *)
(* argparse is modelled with exact flag matching (no prefix               *)
(* abbreviations) and with every flag followed by its value.               *)
(***************************************************************************)
EXTENDS Integers, Sequences, FiniteSets, TLC

VARIABLES
    fns,        \* the handler list given to generate_cmd_parser
    argv,       \* the process arguments after the program name
    commands,   \* main's commands: name -> handler
    argparser,  \* main's argparser: name -> the options of the sub-parser
    pc,         \* position of the run
    kwargs,     \* main's keyword bag (vars of the parsed namespace)
    invoked,    \* the handler invocations so far, with the bound arguments
    fs,         \* the file system: path -> contents
    opens,      \* every open() so far: <<path, mode>>
    calls,      \* external collaborator calls that have returned
    loc,        \* the running handler's local variables
    err         \* the uncaught exception that ended the run, if any

vars == <<fns, argv, commands, argparser, pc, kwargs, invoked, fs, opens, calls, loc, err>>

\* what a handler never touches
env == <<fns, argv, commands, argparser>>

(***************************************************************************)
(* Bounds                                                                  *)
(***************************************************************************)
\* most flag/value pairs on a command line
MaxOpts == 4
\* most parameters of a handler of the other handler lists
MaxArgs == 3
\* most flag/value pairs on a command line for those handlers
MaxGenOpts == 3
\* most languages the code exporter returns in one run
MaxLangs == 2

(***************************************************************************)
(* Python values                                                           *)
(***************************************************************************)
\* the value None; no string of the model equals it
PyNone == <<"<None>">>
\* a path that names no file
NoFile == <<"<absent>">>
\* the empty string
EmptyStr == <<>>

Truthy(v) == v # PyNone /\ v # EmptyStr

\* str.replace(old, new) for one-character old and new
Replace(s, old, new) == [i \in DOMAIN s |-> IF s[i] = old THEN new ELSE s[i]]

\* os.path.join(a, b) for a relative b
join(a, b) == a \o <<"/">> \o b

\* dict[k] = v
Set(d, k, v) == (k :> v) @@ d

Range(s) == {s[i] : i \in DOMAIN s}

Max(S) == CHOOSE x \in S : \A y \in S : y <= x

(***************************************************************************)
(* Parameter names                                                         *)
(***************************************************************************)
input_path == <<"i","n","p","u","t","_","p","a","t","h">>
output_dir == <<"o","u","t","p","u","t","_","d","i","r">>
license_uri == <<"l","i","c","e","n","s","e","_","u","r","i">>
file_format == <<"f","i","l","e","_","f","o","r","m","a","t">>
doctype == <<"d","o","c","t","y","p","e">>
\* dest of the sub-command selector
cmd == <<"c","m","d">>

(***************************************************************************)
(* The handlers' signatures (what inspect.getargspec reports) and the      *)
(* command registry                                                        *)
(***************************************************************************)
citation ==
    [name |-> <<"citation">>,
     args |-> <<input_path, output_dir, license_uri, file_format>>,
     defaults |-> <<PyNone>>,
     entry |-> "citation"]

cmeta ==
    [name |-> <<"cmeta">>, args |-> <<input_path, output_dir>>,
     defaults |-> <<>>, entry |-> "cmeta"]

codegen ==
    [name |-> <<"codegen">>, args |-> <<input_path, output_dir>>,
     defaults |-> <<>>, entry |-> "codegen"]

docgen ==
    [name |-> <<"docgen">>, args |-> <<doctype, input_path, output_dir>>,
     defaults |-> <<>>, entry |-> "docgen"]

maths ==
    [name |-> <<"maths">>, args |-> <<input_path, output_dir>>,
     defaults |-> <<>>, entry |-> "maths"]

cmd_fns == <<citation, cmeta, codegen, docgen, maths>>

(***************************************************************************)
(* generate_cmd_parser                                                     *)
(***************************************************************************)
Min(a, b) == IF a < b THEN a ELSE b

\* (mutant) zip(argspec.args, ...): the reversal forgotten, so the leading
\* parameters are taken for the defaulted ones
ZipDefaultsUnreversed(fn) ==
    LET n == Len(fn.args)
        m == Min(n, Len(fn.defaults))
    IN  [a \in {fn.args[i] : i \in 1..m} |->
            fn.defaults[CHOOSE i \in 1..m : fn.args[i] = a]]

\* dict(zip(reversed(argspec.args), argspec.defaults or ())): the i-th
\* default is paired with the i-th parameter counted from the end
ZipDefaults(fn) ==
    LET n == Len(fn.args)
        m == Min(n, Len(fn.defaults))
    IN  [a \in {fn.args[n + 1 - i] : i \in 1..m} |->
            fn.defaults[CHOOSE i \in 1..m : fn.args[n + 1 - i] = a]]

\* the dest argparse derives from a long option string: the leading '--'
\* stripped, every '-' replaced by '_'
Dest(flag) == Replace(SubSeq(flag, 3, Len(flag)), "-", "_")

\* one sub_ap.add_argument(...) call
AddArgument(arg, defaults) ==
    LET flag == <<"-", "-">> \o Replace(arg, "_", "-")
    IN  [flag |-> flag,
         dest |-> Dest(flag),
         required |-> arg \notin DOMAIN defaults,
         default |-> IF arg \in DOMAIN defaults THEN defaults[arg] ELSE PyNone]

\* the options of one sub-parser, in parameter order
SubParser(fn) ==
    LET defaults == ZipDefaults(fn)
    IN  [i \in DOMAIN fn.args |-> AddArgument(fn.args[i], defaults)]

Names(fs_) == {fs_[i].name : i \in DOMAIN fs_}

\* a later entry of the same name replaces an earlier one
ByName(fs_, n) == fs_[Max({i \in DOMAIN fs_ : fs_[i].name = n})]

generate_cmd_parser(fs_) ==
    [commands |-> [n \in Names(fs_) |-> ByName(fs_, n)],
     argparser |-> [n \in Names(fs_) |-> SubParser(ByName(fs_, n))]]

(***************************************************************************)
(* Python's own binding of a call of fn with keyword arguments kw         *)
(***************************************************************************)
\* the defaults a def statement declares: defaults[i] belongs to the
\* parameter at the same distance from the end of the parameter list
DeclaredDefaults(fn) ==
    LET n == Len(fn.args)
        m == Min(n, Len(fn.defaults))
    IN  [a \in {fn.args[n - m + i] : i \in 1..m} |->
            fn.defaults[CHOOSE i \in 1..m : fn.args[n - m + i] = a]]

\* TRUE when the call raises TypeError: an unexpected keyword, or a
\* parameter with neither a keyword nor a declared default
BindFails(fn, kw) ==
    \/ \E k \in DOMAIN kw : k \notin Range(fn.args)
    \/ \E a \in Range(fn.args) :
          a \notin DOMAIN kw /\ a \notin DOMAIN DeclaredDefaults(fn)

\* the arguments the function body sees
Bind(fn, kw) ==
    [a \in Range(fn.args) |->
        IF a \in DOMAIN kw THEN kw[a] ELSE DeclaredDefaults(fn)[a]]

(***************************************************************************)
(* argparse: parse_args on  <command> --flag VALUE --flag VALUE ...        *)
(***************************************************************************)
NOpts(av) == (Len(av) - 1) \div 2
OptFlag(av, j) == av[2 * j]
OptValue(av, j) == av[2 * j + 1]

\* the flags present on the command line
Supplied(av) == {OptFlag(av, j) : j \in 1..NOpts(av)}

\* action='store': the last occurrence of a flag wins
StoredValue(av, flag) ==
    OptValue(av, Max({j \in 1..NOpts(av) : OptFlag(av, j) = flag}))

\* (mutant) required options are not enforced
UsageErrorNoRequired(parser, av) ==
    \/ Len(av) = 0
    \/ /\ Len(av) > 0
       /\ \/ av[1] \notin DOMAIN parser
          \/ /\ av[1] \in DOMAIN parser
             /\ \E f \in Supplied(av) :
                   f \notin {parser[av[1]][i].flag : i \in DOMAIN parser[av[1]]}

\* TRUE when parse_args ends in a usage failure (SystemExit, status 2)
UsageError(parser, av) ==
    \/ Len(av) = 0
    \/ /\ Len(av) > 0
       /\ \/ av[1] \notin DOMAIN parser
          \/ /\ av[1] \in DOMAIN parser
             /\ LET sub == parser[av[1]]
                IN  \/ \E f \in Supplied(av) :
                          f \notin {sub[i].flag : i \in DOMAIN sub}
                    \/ \E i \in DOMAIN sub :
                          sub[i].required /\ sub[i].flag \notin Supplied(av)

\* vars(namespace): the selected command under 'cmd' and every option of
\* the sub-parser under its dest
Namespace(parser, av) ==
    LET sub == parser[av[1]]
        OptOf(d) == sub[CHOOSE i \in DOMAIN sub : sub[i].dest = d]
    IN  [d \in {cmd} \cup {sub[i].dest : i \in DOMAIN sub} |->
            IF d \notin {sub[i].dest : i \in DOMAIN sub} THEN av[1]
            ELSE IF OptOf(d).flag \in Supplied(av)
                 THEN StoredValue(av, OptOf(d).flag)
                 ELSE OptOf(d).default]

\* (mutant) kwargs.pop('cmd') forgotten
PopKeepsCmd(kw, k) == kw

\* the dict after kw.pop(k)
Pop(kw, k) == [d \in DOMAIN kw \ {k} |-> kw[d]]

(***************************************************************************)
(* The environment of a run                                                *)
(***************************************************************************)
Flag(arg) == <<"-", "-">> \o Replace(arg, "_", "-")
UnknownFlag == <<"-", "-", "x">>
UnknownCmd == <<"bogus">>

InFile == <<"in.xml">>
OutDir == <<"out">>
IndexHtml == join(OutDir, <<"index.html">>)

\* the values tried for each parameter of the registered handlers
ValuesOf(arg) ==
    IF arg = input_path THEN {InFile, IndexHtml}
    ELSE IF arg = output_dir THEN {OutDir}
    ELSE IF arg = license_uri THEN {<<"uriA">>}
    ELSE IF arg = file_format THEN {<<"cellml">>, <<"other">>}
    ELSE IF arg = doctype THEN {<<"htmldoc">>, <<"tmpdoc">>, <<"nodoc">>}
    ELSE {<<"x">>}

SeqsUpTo(S, n) == UNION {[1..k -> S] : k \in 0..n}

RECURSIVE Flatten(_)
Flatten(ps) == IF ps = <<>> THEN <<>> ELSE Head(ps) \o Flatten(Tail(ps))

\* the command lines tried for a handler: its own flags and an unknown one
ArgvsOf(fn, most) ==
    LET pairs == UNION {{<<Flag(a), v>> : v \in ValuesOf(a)} : a \in Range(fn.args)}
                    \cup {<<UnknownFlag, <<"x">>>>}
    IN  {<<fn.name>> \o Flatten(ps) : ps \in SeqsUpTo(pairs, most)}

codegen_fileext ==
    (<<"Python">> :> <<"py">>) @@ (<<"C_IDA">> :> <<"c">>) @@ (<<"C">> :> <<"c">>)
        @@ (<<"F77">> :> <<"f77">>) @@ (<<"MATLAB">> :> <<"m">>)

\* (mutant) 'code.%s' % codegen_fileext[k]: the language left out of the name
CodeFileNoLang(k) == <<"code.">> \o codegen_fileext[k]

\* 'code.%s.%s' % (k, codegen_fileext[k])
CodeFile(k) == <<"code.">> \o k \o <<".">> \o codegen_fileext[k]

OutFiles ==
    {<<"license.txt">>, <<"cmeta.json">>, <<"index.html">>, <<"math.json">>}
        \cup {CodeFile(k) : k \in DOMAIN codegen_fileext}

Paths == {InFile} \cup {join(OutDir, f) : f \in OutFiles}

\* the input exists, and so does an older index.html
InitFs ==
    [p \in Paths |->
        IF p = InFile THEN <<"IN">>
        ELSE IF p = IndexHtml THEN <<"OLD">>
        ELSE NoFile]

NoLoc == [h |-> "none"]

InitRun ==
    /\ commands = <<>>
    /\ argparser = <<>>
    /\ pc = "start"
    /\ kwargs = <<>>
    /\ invoked = <<>>
    /\ fs = InitFs
    /\ opens = <<>>
    /\ calls = {}
    /\ loc = NoLoc
    /\ err = "none"

Init ==
    /\ fns = cmd_fns
    /\ argv \in UNION {ArgvsOf(cmd_fns[i], MaxOpts) : i \in DOMAIN cmd_fns}
                  \cup {<<>>, <<UnknownCmd>>,
                        <<UnknownCmd, Flag(input_path), InFile>>}
    /\ InitRun

(***************************************************************************)
(* Steps shared by the handlers                                            *)
(***************************************************************************)
\* the run ends: normally (e = "none") or with the uncaught exception e
Exit(e) == pc' = "exit" /\ err' = e

\* the paths opened for writing so far
OpenedForWrite == {opens[i][1] : i \in {j \in DOMAIN opens : opens[j][2] = "w"}}

\* what open(path) finds
Contents(path) == IF path \in DOMAIN fs THEN fs[path] ELSE NoFile

\* open(path, 'w') creates or truncates the file
Truncate(path) ==
    /\ opens' = Append(opens, <<path, "w">>)
    /\ fs' = [fs EXCEPT ![path] = EmptyStr]

(***************************************************************************)
(* main                                                                    *)
(***************************************************************************)
\* commands, argparser = generate_cmd_parser(cmd_fns)
GenerateCmdParser ==
    /\ pc = "start"
    /\ commands' = generate_cmd_parser(fns).commands
    /\ argparser' = generate_cmd_parser(fns).argparser
    /\ pc' = "generated"
    /\ UNCHANGED <<fns, argv, kwargs, invoked, fs, opens, calls, loc, err>>

\* kwargs = vars(argparser.parse_args())
ParseArgs ==
    /\ pc = "generated"
    /\ IF UsageError(argparser, argv)
       THEN /\ Exit("SystemExit")
            /\ UNCHANGED kwargs
       ELSE /\ pc' = "parsed"
            /\ kwargs' = Namespace(argparser, argv)
            /\ UNCHANGED err
    /\ UNCHANGED <<env, invoked, fs, opens, calls, loc>>

\* cmd_key = kwargs.pop('cmd'); commands[cmd_key] called with kwargs
Dispatch ==
    /\ pc = "parsed"
    /\ LET cmd_key == kwargs[cmd]
           kw == Pop(kwargs, cmd)
           fn == commands[cmd_key]
       IN  /\ kwargs' = kw
           /\ IF BindFails(fn, kw)
              THEN /\ Exit("TypeError")
                   /\ UNCHANGED <<invoked, loc>>
              ELSE /\ pc' = fn.entry
                   /\ invoked' = Append(invoked, [name |-> fn.name, args |-> Bind(fn, kw)])
                   /\ loc' = [h |-> fn.entry, a |-> Bind(fn, kw)]
                   /\ UNCHANGED err
    /\ UNCHANGED <<env, fs, opens, calls>>

(***************************************************************************)
(* citation                                                                *)
(***************************************************************************)
citation_extract == (<<"cellml">> :> "citation_cellml")

\* what metadata.get_license() may return
LicenseResults == {PyNone, EmptyStr, <<"uriX">>}

\* extracted = citation_extract.get(file_format, lambda _: None)(input_path)
CitationExtract ==
    /\ pc = "citation"
    /\ IF loc.a[file_format] \in DOMAIN citation_extract
       THEN \* citation_cellml: open(input_path), Cmeta(fd), get_license()
            /\ opens' = Append(opens, <<loc.a[input_path], "r">>)
            /\ \/ /\ Contents(loc.a[input_path]) = NoFile
                  /\ Exit("IOError")
                  /\ UNCHANGED <<calls, loc>>
               \/ /\ Contents(loc.a[input_path]) # NoFile
                  /\ Exit("CollaboratorError")
                  /\ UNCHANGED <<calls, loc>>
               \/ /\ Contents(loc.a[input_path]) # NoFile
                  /\ \E r \in LicenseResults : loc' = Set(loc, "extracted", r)
                  /\ calls' = calls \cup {"Cmeta", "get_license"}
                  /\ pc' = "citation_open"
                  /\ UNCHANGED err
       ELSE /\ loc' = Set(loc, "extracted", PyNone)
            /\ pc' = "citation_open"
            /\ UNCHANGED <<opens, calls, err>>
    /\ UNCHANGED <<env, kwargs, invoked, fs>>

\* (mutant) "if extracted is not None": an empty extraction is written
LicenseToWriteNotNone(extracted, given) ==
    IF extracted # PyNone THEN extracted ELSE given

\* if extracted: license_uri = extracted
LicenseToWrite(extracted, given) == IF Truthy(extracted) THEN extracted ELSE given

\* output_file = join(output_dir, 'license.txt'); open(output_file, 'w')
CitationOpen ==
    /\ pc = "citation_open"
    /\ LET output_file == join(loc.a[output_dir], <<"license.txt">>)
       IN  /\ loc' = Set(Set(loc, "output_file", output_file), "license_uri",
                         LicenseToWrite(loc.extracted, loc.a[license_uri]))
           /\ Truncate(output_file)
    /\ pc' = "citation_write"
    /\ UNCHANGED <<env, kwargs, invoked, calls, err>>

\* fd.write(license_uri)
CitationWrite ==
    /\ pc = "citation_write"
    /\ fs' = [fs EXCEPT ![loc.output_file] = loc.license_uri]
    /\ Exit("none")
    /\ UNCHANGED <<env, kwargs, invoked, opens, calls, loc>>

(***************************************************************************)
(* docgen                                                                  *)
(***************************************************************************)
docs_lookup == (<<"htmldoc">> :> "htmldoc") @@ (<<"tmpdoc">> :> "tmpdoc")

\* (mutant) docs_lookup.get(doctype, htmldoc): an unknown type is copied
LookupDocDefault(d) == IF d \in DOMAIN docs_lookup THEN docs_lookup[d] ELSE "htmldoc"

\* docs_lookup[doctype]
LookupDoc(d) == IF d \in DOMAIN docs_lookup THEN docs_lookup[d] ELSE "KeyError"

\* docs_lookup[doctype](input_path, output_dir)
Docgen ==
    /\ pc = "docgen"
    /\ IF LookupDoc(loc.a[doctype]) = "KeyError"
       THEN Exit("KeyError")
       ELSE pc' = LookupDoc(loc.a[doctype]) /\ UNCHANGED err
    /\ UNCHANGED <<env, kwargs, invoked, fs, opens, calls, loc>>

\* with open(input_path) as inc
HtmldocOpenIn ==
    /\ pc = "htmldoc"
    /\ opens' = Append(opens, <<loc.a[input_path], "r">>)
    /\ IF Contents(loc.a[input_path]) = NoFile
       THEN Exit("IOError")
       ELSE pc' = "htmldoc_open_out" /\ UNCHANGED err
    /\ UNCHANGED <<env, kwargs, invoked, fs, calls, loc>>

\* output_file = join(output_dir, 'index.html'); open(output_file, 'w')
HtmldocOpenOut ==
    /\ pc = "htmldoc_open_out"
    /\ LET output_file == join(loc.a[output_dir], <<"index.html">>)
       IN  /\ loc' = Set(loc, "output_file", output_file)
           /\ Truncate(output_file)
    /\ pc' = "htmldoc_copy"
    /\ UNCHANGED <<env, kwargs, invoked, calls, err>>

\* fd.write(inc.read()): the input is read only now
HtmldocCopy ==
    /\ pc = "htmldoc_copy"
    /\ fs' = [fs EXCEPT ![loc.output_file] = Contents(loc.a[input_path])]
    /\ Exit("none")
    /\ UNCHANGED <<env, kwargs, invoked, opens, calls, loc>>

\* with open(input_path) as inc
TmpdocOpenIn ==
    /\ pc = "tmpdoc"
    /\ opens' = Append(opens, <<loc.a[input_path], "r">>)
    /\ IF Contents(loc.a[input_path]) = NoFile
       THEN Exit("IOError")
       ELSE pc' = "tmpdoc_transform" /\ UNCHANGED err
    /\ UNCHANGED <<env, kwargs, invoked, fs, calls, loc>>

\* the legacy transform of the text it reads from inc
tmpdoc2html(text) == <<"<html>">> \o text \o <<"</html>">>

\* output = tmpdoc2html(inc)
TmpdocTransform ==
    /\ pc = "tmpdoc_transform"
    /\ \/ /\ Exit("CollaboratorError")
          /\ UNCHANGED <<calls, loc>>
       \/ /\ loc' = Set(loc, "output", tmpdoc2html(Contents(loc.a[input_path])))
          /\ calls' = calls \cup {"tmpdoc2html"}
          /\ pc' = "tmpdoc_open_out"
          /\ UNCHANGED err
    /\ UNCHANGED <<env, kwargs, invoked, fs, opens>>

\* (mutant) the output is opened before the transform is called
TmpdocOpenOutEarly ==
    /\ pc = "tmpdoc_transform"
    /\ "output_file" \notin DOMAIN loc
    /\ LET output_file == join(loc.a[output_dir], <<"index.html">>)
       IN  /\ loc' = Set(loc, "output_file", output_file)
           /\ Truncate(output_file)
    /\ UNCHANGED <<env, pc, kwargs, invoked, calls, err>>

\* output_file = join(output_dir, 'index.html'); open(output_file, 'w')
TmpdocOpenOut ==
    /\ pc = "tmpdoc_open_out"
    /\ LET output_file == join(loc.a[output_dir], <<"index.html">>)
       IN  /\ loc' = Set(loc, "output_file", output_file)
           /\ Truncate(output_file)
    /\ pc' = "tmpdoc_write"
    /\ UNCHANGED <<env, kwargs, invoked, calls, err>>

\* fd.write(output.getvalue())
TmpdocWrite ==
    /\ pc = "tmpdoc_write"
    /\ fs' = [fs EXCEPT ![loc.output_file] = loc.output]
    /\ Exit("none")
    /\ UNCHANGED <<env, kwargs, invoked, opens, calls, loc>>

(***************************************************************************)
(* cmeta                                                                   *)
(***************************************************************************)
Digits == {"0", "1", "2", "3", "4", "5", "6", "7", "8", "9"}

\* isinstance(v, basestring)
IsString(v) == v # PyNone

\* re_date.search(s) for '^[0-9]{4}(-[0-9]{2}){0,2}' on a string given by
\* its characters: the optional groups may match nothing
re_date_search(s) == Len(s) >= 4 /\ \A i \in 1..4 : s[i] \in Digits

\* the creators a citation may list
Creators ==
    {<<>>,
     <<[family |-> <<"Fam">>, given |-> <<"Giv">>, other |-> <<>>]>>,
     <<[family |-> <<"Fam">>, given |-> <<"Giv">>, other |-> <<"O1", "O2">>]>>}

\* the citations the metadata may hold
Citations ==
    [citation_id : {<<"cit1">>}, journal : {<<"Journal">>}, title : {<<"Title">>},
     issued : {<<"2", "0", "0", "1", "-", "0", "5">>, <<"n", ".", "d", ".">>, PyNone},
     creator : Creators]

\* what the Cmeta object built from the input may answer
Metadatas ==
    [ids : {<<>>, <<<<"id1">>>>},
     citation : {<<>>} \cup {<<c>> : c \in Citations},
     keywords : {<<"kw">>},
     dc_title : {<<>>, <<<<"Model">>>>},
     vcard : {<<>>, <<[given |-> <<"Giv">>, family |-> <<"Fam">>,
                       orgunit |-> <<"Unit">>, orgname |-> <<"Org">>]>>}]

CitationKeys ==
    {"citation_id", "citation_bibliographicCitation", "citation_title",
     "citation_issued", "citation_authors"}

\* ' '.join(words)
RECURSIVE JoinWords(_)
JoinWords(ws) ==
    IF ws = <<>> THEN <<>>
    ELSE IF Len(ws) = 1 THEN <<ws[1]>>
    ELSE <<ws[1], " ">> \o JoinWords(Tail(ws))

\* the (family, given, other) tuples of the creators
RECURSIVE Authors(_)
Authors(cs) ==
    IF cs = <<>> THEN <<>>
    ELSE <<"(">> \o cs[1].family \o <<",">> \o cs[1].given \o <<",">>
            \o (IF cs[1].other # <<>> THEN JoinWords(cs[1].other) ELSE EmptyStr)
            \o <<")">> \o Authors(Tail(cs))

\* (mutant) the citation is read without looking at the ids
generate_citation_unguarded(md, result) ==
    IF md.citation = <<>> THEN result
    ELSE Set(result, "citation_id", md.citation[1].citation_id)

\* generate_citation(): result after the call
generate_citation(md, result) ==
    IF md.ids = <<>> THEN result
    ELSE IF md.citation = <<>> THEN result
    ELSE LET c == md.citation[1]
             r1 == Set(result, "citation_id", c.citation_id)
             r2 == Set(r1, "citation_bibliographicCitation", c.journal)
             r3 == Set(r2, "citation_title", c.title)
             r4 == Set(r3, "citation_issued",
                       IF IsString(c.issued) /\ re_date_search(c.issued)
                       THEN c.issued ELSE EmptyStr)
         IN  IF c.creator = <<>> THEN r4
             ELSE Set(r4, "citation_authors", Authors(c.creator))

\* generate_keywords()
generate_keywords(md, result) == Set(result, "keywords", md.keywords)

\* generate_model_title()
generate_model_title(md, result) ==
    IF md.dc_title # <<>> THEN Set(result, "model_title", md.dc_title[1])
    ELSE result

\* generate_model_authorship()
generate_model_authorship(md, result) ==
    IF md.vcard = <<>> THEN result
    ELSE LET info == md.vcard[1]
         IN  Set(Set(result, "model_author", info.given \o <<" ">> \o info.family),
                 "model_author_org", info.orgunit \o <<", ">> \o info.orgname)

\* the order in which json.dump emits the keys of the record
KeyOrder ==
    <<"citation_id", "citation_bibliographicCitation", "citation_title",
      "citation_issued", "citation_authors", "keywords", "model_title",
      "model_author", "model_author_org">>

RECURSIVE JsonItems(_, _)
JsonItems(d, keys) ==
    IF keys = <<>> THEN <<>>
    ELSE (IF Head(keys) \in DOMAIN d
          THEN <<Head(keys), ":">> \o d[Head(keys)] \o <<";">>
          ELSE <<>>) \o JsonItems(d, Tail(keys))

\* json.dump of a record
JsonDump(d) == <<"{">> \o JsonItems(d, KeyOrder) \o <<"}">>

\* result = {}; with open(input_path) as fd: metadata = Cmeta(fd)
CmetaLoad ==
    /\ pc = "cmeta"
    /\ opens' = Append(opens, <<loc.a[input_path], "r">>)
    /\ \/ /\ Contents(loc.a[input_path]) = NoFile
          /\ Exit("IOError")
          /\ UNCHANGED <<calls, loc>>
       \/ /\ Contents(loc.a[input_path]) # NoFile
          /\ Exit("CollaboratorError")
          /\ UNCHANGED <<calls, loc>>
       \/ /\ Contents(loc.a[input_path]) # NoFile
          /\ \E md \in Metadatas :
                loc' = Set(Set(loc, "metadata", md), "result", <<>>)
          /\ calls' = calls \cup {"Cmeta"}
          /\ pc' = "cmeta_citation"
          /\ UNCHANGED err
    /\ UNCHANGED <<env, kwargs, invoked, fs>>

\* one generate_...() call: the metadata queries fail, or the record grows
CmetaStep(at, result, queried, next) ==
    /\ pc = at
    /\ \/ /\ Exit("CollaboratorError")
          /\ UNCHANGED <<calls, loc>>
       \/ /\ loc' = Set(loc, "result", result)
          /\ calls' = calls \cup queried
          /\ pc' = next
          /\ UNCHANGED err
    /\ UNCHANGED <<env, kwargs, invoked, fs, opens>>

CmetaGenerateCitation ==
    /\ pc = "cmeta_citation"
    /\ CmetaStep("cmeta_citation", generate_citation(loc.metadata, loc.result),
                 IF loc.metadata.ids = <<>> THEN {"get_cmetaid"}
                 ELSE {"get_cmetaid", "get_citation"},
                 "cmeta_keywords")

CmetaGenerateKeywords ==
    /\ pc = "cmeta_keywords"
    /\ CmetaStep("cmeta_keywords", generate_keywords(loc.metadata, loc.result),
                 {"get_keywords"}, "cmeta_title")

CmetaGenerateModelTitle ==
    /\ pc = "cmeta_title"
    /\ CmetaStep("cmeta_title", generate_model_title(loc.metadata, loc.result),
                 {"get_dc_title"}, "cmeta_authorship")

CmetaGenerateModelAuthorship ==
    /\ pc = "cmeta_authorship"
    /\ CmetaStep("cmeta_authorship",
                 generate_model_authorship(loc.metadata, loc.result),
                 {"get_dc_vcard_info"}, "cmeta_open")

\* output_file = join(output_dir, 'cmeta.json'); open(output_file, 'w')
CmetaOpen ==
    /\ pc = "cmeta_open"
    /\ LET output_file == join(loc.a[output_dir], <<"cmeta.json">>)
       IN  /\ loc' = Set(loc, "output_file", output_file)
           /\ Truncate(output_file)
    /\ pc' = "cmeta_dump"
    /\ UNCHANGED <<env, kwargs, invoked, calls, err>>

\* json.dump(result, fd)
CmetaDump ==
    /\ pc = "cmeta_dump"
    /\ fs' = [fs EXCEPT ![loc.output_file] = JsonDump(loc.result)]
    /\ Exit("none")
    /\ UNCHANGED <<env, kwargs, invoked, opens, calls, loc>>

(***************************************************************************)
(* codegen                                                                 *)
(***************************************************************************)
\* the languages the code exporter may name: those with a file extension
\* and one without
Langs == DOMAIN codegen_fileext \cup {<<"Other">>}

\* the generated code for language k
CodeFor(k) == <<"code for ">> \o k

\* cu = CellMLAPIUtility(); model = cu.model_loader.loadFromURL(input_path)
CodegenLoad ==
    /\ pc = "codegen"
    /\ \/ /\ Exit("CollaboratorError")
          /\ UNCHANGED calls
       \/ /\ calls' = calls \cup {"loadFromURL"}
          /\ pc' = "codegen_export"
          /\ UNCHANGED err
    /\ UNCHANGED <<env, kwargs, invoked, fs, opens, loc>>

\* cu.exportCeleds(model).items()
CodegenExport ==
    /\ pc = "codegen_export"
    /\ \/ /\ Exit("CollaboratorError")
          /\ UNCHANGED <<calls, loc>>
       \/ /\ \E ks \in {x \in SUBSET Langs : Cardinality(x) <= MaxLangs} :
                loc' = Set(Set(loc, "exported", ks), "todo", ks)
          /\ calls' = calls \cup {"exportCeleds"}
          /\ pc' = "codegen_loop"
          /\ UNCHANGED err
    /\ UNCHANGED <<env, kwargs, invoked, fs, opens>>

\* for k, v in ...: output_file = join(output_dir, 'code.%s.%s' % (k,
\* codegen_fileext[k])); open(output_file, 'w').  The dict yields its items
\* in no particular order.
CodegenOpen ==
    /\ pc = "codegen_loop"
    /\ IF loc.todo = {}
       THEN /\ Exit("none")
            /\ UNCHANGED <<fs, opens, loc>>
       ELSE \E k \in loc.todo :
               IF k \notin DOMAIN codegen_fileext
               THEN /\ Exit("KeyError")
                    /\ UNCHANGED <<fs, opens, loc>>
               ELSE LET output_file == join(loc.a[output_dir], CodeFile(k))
                    IN  /\ loc' = Set(Set(loc, "output_file", output_file), "k", k)
                        /\ Truncate(output_file)
                        /\ pc' = "codegen_write"
                        /\ UNCHANGED err
    /\ UNCHANGED <<env, kwargs, invoked, calls>>

\* fd.write(v)
CodegenWrite ==
    /\ pc = "codegen_write"
    /\ fs' = [fs EXCEPT ![loc.output_file] = CodeFor(loc.k)]
    /\ loc' = Set(loc, "todo", loc.todo \ {loc.k})
    /\ pc' = "codegen_loop"
    /\ UNCHANGED <<env, kwargs, invoked, opens, calls, err>>

(***************************************************************************)
(* maths                                                                   *)
(***************************************************************************)
\* what cu.extractMaths(model) may return: (component, expressions) pairs
ExtractedMaths ==
    {<<>>,
     <<[k |-> <<"comp1">>, v |-> <<>>]>>,
     <<[k |-> <<"comp1">>, v |-> <<<<"cmml1">>>>]>>,
     <<[k |-> <<"comp1">>, v |-> <<<<"cmml1">>>>],
       [k |-> <<"comp2">>, v |-> <<<<"cmml2">>, <<"cmml3">>>>]>>}

\* mathc2p(s): the XSLT transform of one expression
mathc2p(m) == <<"pmml(">> \o m \o <<")">>

\* [(k, [mathc2p(m) for m in v]) for k, v in maths]
ConvertMaths(ms) ==
    [i \in DOMAIN ms |->
        [k |-> ms[i].k, v |-> [j \in DOMAIN ms[i].v |-> mathc2p(ms[i].v[j])]]]

RECURSIVE JsonList(_)
JsonList(ms) ==
    IF ms = <<>> THEN <<>>
    ELSE <<"[">> \o ms[1].k \o <<",">> \o Flatten(ms[1].v) \o <<"]">>
            \o JsonList(Tail(ms))

\* cu = CellMLAPIUtility(); model = cu.model_loader.loadFromURL(input_path)
MathsLoad ==
    /\ pc = "maths"
    /\ \/ /\ Exit("CollaboratorError")
          /\ UNCHANGED calls
       \/ /\ calls' = calls \cup {"loadFromURL"}
          /\ pc' = "maths_extract"
          /\ UNCHANGED err
    /\ UNCHANGED <<env, kwargs, invoked, fs, opens, loc>>

\* maths = cu.extractMaths(model)
MathsExtract ==
    /\ pc = "maths_extract"
    /\ \/ /\ Exit("CollaboratorError")
          /\ UNCHANGED <<calls, loc>>
       \/ /\ \E ms \in ExtractedMaths : loc' = Set(loc, "maths", ms)
          /\ calls' = calls \cup {"extractMaths"}
          /\ pc' = "maths_transform"
          /\ UNCHANGED err
    /\ UNCHANGED <<env, kwargs, invoked, fs, opens>>

\* maths = [(k, [mathc2p(m) for m in v]) for k, v in maths]
MathsTransform ==
    /\ pc = "maths_transform"
    /\ LET some == \E i \in DOMAIN loc.maths : loc.maths[i].v # <<>>
       IN  \/ /\ some
              /\ Exit("CollaboratorError")
              /\ UNCHANGED <<calls, loc>>
           \/ /\ loc' = Set(loc, "maths", ConvertMaths(loc.maths))
              /\ calls' = IF some THEN calls \cup {"mathc2p"} ELSE calls
              /\ pc' = "maths_open"
              /\ UNCHANGED err
    /\ UNCHANGED <<env, kwargs, invoked, fs, opens>>

\* output_file = join(output_dir, 'math.json'); open(output_file, 'w')
MathsOpen ==
    /\ pc = "maths_open"
    /\ LET output_file == join(loc.a[output_dir], <<"math.json">>)
       IN  /\ loc' = Set(loc, "output_file", output_file)
           /\ Truncate(output_file)
    /\ pc' = "maths_dump"
    /\ UNCHANGED <<env, kwargs, invoked, calls, err>>

\* json.dump(maths, fd)
MathsDump ==
    /\ pc = "maths_dump"
    /\ fs' = [fs EXCEPT ![loc.output_file] = <<"[">> \o JsonList(loc.maths) \o <<"]">>]
    /\ Exit("none")
    /\ UNCHANGED <<env, kwargs, invoked, opens, calls, loc>>

(***************************************************************************)
(* The program: one run of main over the registered commands               *)
(***************************************************************************)
Next ==
    \/ GenerateCmdParser
    \/ ParseArgs
    \/ Dispatch
    \/ CitationExtract
    \/ CitationOpen
    \/ CitationWrite
    \/ CmetaLoad
    \/ CmetaGenerateCitation
    \/ CmetaGenerateKeywords
    \/ CmetaGenerateModelTitle
    \/ CmetaGenerateModelAuthorship
    \/ CmetaOpen
    \/ CmetaDump
    \/ CodegenLoad
    \/ CodegenExport
    \/ CodegenOpen
    \/ CodegenWrite
    \/ Docgen
    \/ HtmldocOpenIn
    \/ HtmldocOpenOut
    \/ HtmldocCopy
    \/ TmpdocOpenIn
    \/ TmpdocTransform
    \/ TmpdocOpenOut
    \/ TmpdocWrite
    \/ MathsLoad
    \/ MathsExtract
    \/ MathsTransform
    \/ MathsOpen
    \/ MathsDump

Spec == Init /\ [][Next]_vars

(***************************************************************************)
(* generate_cmd_parser and main over other handler lists: handlers of up   *)
(* to MaxArgs parameters with every number of trailing defaults            *)
(***************************************************************************)
Letters == <<"a", "b", "c", "d", "e", "f">>

\* the i-th parameter name: a_x, b_x, ...
ParamName(i) == <<Letters[i], "_", "x">>

DefaultValues == {PyNone, <<"d1">>, <<"d2">>}

\* def f(a_x, b_x, ...), the last Len(ds) parameters defaulted to ds
Signatures ==
    UNION {{[name |-> <<"f">>, args |-> [i \in 1..n |-> ParamName(i)],
             defaults |-> ds, entry |-> "body"] :
                ds \in SeqsUpTo(DefaultValues, n)} : n \in 0..MaxArgs}

\* def g(): a second handler of the list
g == [name |-> <<"g">>, args |-> <<>>, defaults |-> <<>>, entry |-> "body"]

InitGen ==
    /\ \E sig \in Signatures :
          /\ fns \in {<<sig>>, <<g, sig>>}
          /\ argv \in ArgvsOf(sig, MaxGenOpts) \cup {<<g.name>>}
    /\ InitRun

\* the body of a handler of these lists: it returns
Body ==
    /\ pc = "body"
    /\ Exit("none")
    /\ UNCHANGED <<env, kwargs, invoked, fs, opens, calls, loc>>

NextGen == GenerateCmdParser \/ ParseArgs \/ Dispatch \/ Body

SpecGen == InitGen /\ [][NextGen]_vars

(***************************************************************************)
(* Properties                                                              *)
(***************************************************************************)
\* the handler of fns that a command name selects
HandlerNamed(n) == ByName(fns, n)

\* the option of a generated sub-parser that belongs to parameter i
OptionOf(fn, i) == argparser[fn.name][i]

\* the run is past parse_args without a usage failure
ParsedOk == pc \notin {"start", "generated"} /\ err # "SystemExit"

\* the single handler invocation of the run
TheCall == invoked[1]

Ran(fn) == invoked # <<>> /\ TheCall.name = fn.name

Finished == pc = "exit" /\ err = "none"

\* C1: in every generated parser, the flag of a parameter is required if
\* and only if the parameter is not one of the trailing len(defaults)
\* parameters of its handler
C1_RequiredIffNoDefault ==
    pc # "start" =>
        \A k \in DOMAIN fns :
            LET fn == fns[k]
            IN  HandlerNamed(fn.name) = fn =>
                    \A i \in DOMAIN fn.args :
                        OptionOf(fn, i).required
                            <=> (i <= Len(fn.args) - Len(fn.defaults))

C1_Witness ==
    /\ pc = "generated"
    /\ \E k \in DOMAIN fns :
          /\ Len(fns[k].args) = 3
          /\ Len(fns[k].defaults) = 1
          /\ OptionOf(fns[k], 2).required
          /\ ~OptionOf(fns[k], 3).required

\* C2: a parameter whose flag is not on the command line reaches the
\* handler with the default the handler's own signature declares for it
C2_DefaultIsDeclaredDefault ==
    invoked # <<>> =>
        LET fn == HandlerNamed(TheCall.name)
        IN  \A i \in DOMAIN fn.args :
                (i > Len(fn.args) - Len(fn.defaults)
                    /\ OptionOf(fn, i).flag \notin Supplied(argv))
                => TheCall.args[fn.args[i]]
                      = fn.defaults[i - (Len(fn.args) - Len(fn.defaults))]

\* C3: a command line that names a registered command and omits one of its
\* required flags ends in a usage failure at parse_args: no handler is
\* invoked, no file is opened or changed
OmitsRequired ==
    /\ argv # <<>>
    /\ argv[1] \in Names(cmd_fns)
    /\ LET fn == ByName(cmd_fns, argv[1])
       IN  \E i \in DOMAIN fn.args :
              /\ i <= Len(fn.args) - Len(fn.defaults)
              /\ Flag(fn.args[i]) \notin Supplied(argv)

C3_MissingRequiredIsUsageFailure ==
    OmitsRequired =>
        /\ pc \in {"start", "generated", "exit"}
        /\ pc = "exit" => err = "SystemExit"
        /\ invoked = <<>>
        /\ opens = <<>>
        /\ fs = InitFs

C3_Witness ==
    /\ OmitsRequired
    /\ NOpts(argv) >= 2
    /\ \A f \in Supplied(argv) : f # UnknownFlag
    /\ pc = "exit"
    /\ err = "SystemExit"

\* C4: after a successful parse, main invokes exactly one handler, once,
\* the one named by the command; it receives exactly its parameter names,
\* each bound to a value supplied for its flag or else to the flag's default
C4_OneCallWithParsedArgs ==
    /\ Len(invoked) <= 1
    /\ (ParsedOk /\ pc # "parsed") =>
          /\ Len(invoked) = 1
          /\ TheCall.name = argv[1]
          /\ LET fn == ByName(cmd_fns, argv[1])
             IN  /\ DOMAIN kwargs = Range(fn.args)
                 /\ DOMAIN TheCall.args = Range(fn.args)
                 /\ \A i \in DOMAIN fn.args :
                       IF Flag(fn.args[i]) \in Supplied(argv)
                       THEN /\ \E j \in 1..NOpts(argv) :
                                  /\ OptFlag(argv, j) = Flag(fn.args[i])
                                  /\ OptValue(argv, j) = TheCall.args[fn.args[i]]
                            /\ TheCall.args[fn.args[i]] = kwargs[fn.args[i]]
                       ELSE TheCall.args[fn.args[i]] = OptionOf(fn, i).default

C4_Witness ==
    /\ Finished
    /\ Ran(citation)
    /\ Flag(file_format) \notin Supplied(argv)
    /\ TheCall.args[file_format] = PyNone
    /\ TheCall.args[input_path] = InFile

LicenseTxt == join(OutDir, <<"license.txt">>)
CmetaJson == join(OutDir, <<"cmeta.json">>)
MathJson == join(OutDir, <<"math.json">>)

\* C5: citation writes to license.txt the extracted license URI when there
\* is one and otherwise the license_uri argument; with no extractor
\* registered for file_format, or an extraction that yields nothing, the
\* run does not fail and the file holds exactly the argument
C5_LicenseFallsBackToArgument ==
    Ran(citation) =>
        LET a == TheCall.args
            nothing == "extracted" \in DOMAIN loc
                          /\ loc.extracted \in {PyNone, EmptyStr}
        IN  /\ a[file_format] # <<"cellml">> =>
                  /\ err = "none"
                  /\ pc # "citation" => nothing
            /\ nothing => err = "none"
            /\ Finished =>
                  /\ OpenedForWrite = {LicenseTxt}
                  /\ fs[LicenseTxt] = IF nothing THEN a[license_uri] ELSE loc.extracted

C5_Witness ==
    /\ Ran(citation)
    /\ Finished
    /\ TheCall.args[file_format] = <<"cellml">>
    /\ loc.extracted = EmptyStr
    /\ fs[LicenseTxt] = <<"uriA">>

\* C6: in cmeta, when the metadata has no cmeta id, or no citation for the
\* first id, the record never holds a citation key, generate_citation
\* returns normally, and a run whose later queries succeed performs the
\* keyword, title and authorship extractions and writes the record, without
\* any citation key, to cmeta.json
C6_NoCitationKeysWithoutCitation ==
    (Ran(cmeta) /\ "metadata" \in DOMAIN loc
        /\ (loc.metadata.ids = <<>> \/ loc.metadata.citation = <<>>))
    =>  /\ DOMAIN loc.result \cap CitationKeys = {}
        /\ err \in {"none", "CollaboratorError"}
        /\ Finished =>
              /\ {"get_keywords", "get_dc_title", "get_dc_vcard_info"} \subseteq calls
              /\ "keywords" \in DOMAIN loc.result
              /\ OpenedForWrite = {CmetaJson}
              /\ fs[CmetaJson] = JsonDump(loc.result)
              /\ Range(fs[CmetaJson]) \cap CitationKeys = {}
              /\ "keywords" \in Range(fs[CmetaJson])

C6_Witness ==
    /\ Ran(cmeta)
    /\ Finished
    /\ loc.metadata.ids # <<>>
    /\ loc.metadata.citation = <<>>
    /\ loc.metadata.vcard # <<>>
    /\ "model_author" \in Range(fs[CmetaJson])

\* C7: after docgen with doctype 'htmldoc', index.html holds what the input
\* file held when the command started, also when the input is index.html
C7_HtmldocCopiesInput ==
    (Ran(docgen) /\ TheCall.args[doctype] = <<"htmldoc">> /\ Finished)
    => fs[IndexHtml] = InitFs[TheCall.args[input_path]]

\* C8: docgen with a doctype that is neither 'htmldoc' nor 'tmpdoc' fails
\* with a key-lookup error before any file is opened: the input is not
\* read, no output file is created or truncated
C8_UnknownDoctypeFailsFirst ==
    (Ran(docgen) /\ TheCall.args[doctype] \notin {<<"htmldoc">>, <<"tmpdoc">>})
    =>  /\ pc \in {"docgen", "exit"}
        /\ pc = "exit" => err = "KeyError"
        /\ opens = <<>>
        /\ fs = InitFs

C8_Witness ==
    /\ Ran(docgen)
    /\ TheCall.args[doctype] = <<"nodoc">>
    /\ pc = "exit"
    /\ err = "KeyError"
    /\ opens = <<>>

\* the files each command is documented to write
Documented ==
    IF Ran(citation) THEN {LicenseTxt}
    ELSE IF Ran(cmeta) THEN {CmetaJson}
    ELSE IF Ran(docgen) THEN {IndexHtml}
    ELSE IF Ran(maths) THEN {MathJson}
    ELSE {OutDir \o <<"/", "code.">> \o k \o <<".">> \o codegen_fileext[k] :
            k \in loc.exported \cap DOMAIN codegen_fileext}

\* a run of a registered command given all its required flags and none of
\* its optional ones, in which no external collaborator failed
RequiredFlagsOnly ==
    /\ pc = "exit"
    /\ invoked # <<>>
    /\ Flag(file_format) \notin Supplied(argv)
    /\ err # "CollaboratorError"

WritesExactlyDocumented ==
    /\ err = "none"
    /\ OpenedForWrite = Documented
    /\ \A p \in Paths : IF p \in Documented THEN fs[p] # NoFile ELSE fs[p] = InitFs[p]

\* C9 as stated: every such run succeeds and writes exactly the documented
\* files
C9_EveryRunWritesDocumented == RequiredFlagsOnly => WritesExactlyDocumented

\* C9 amended: every such run in which docgen is given a registered doctype
\* and the code exporter returns only languages that have a file extension
\* succeeds and writes exactly the documented files
C9_RunWritesDocumented ==
    (/\ RequiredFlagsOnly
     /\ Ran(docgen) => TheCall.args[doctype] \in {<<"htmldoc">>, <<"tmpdoc">>}
     /\ Ran(codegen) => loc.exported \subseteq DOMAIN codegen_fileext)
    => WritesExactlyDocumented

C9_Witness ==
    /\ RequiredFlagsOnly
    /\ Ran(codegen)
    /\ loc.exported = {<<"C">>, <<"C_IDA">>}
    /\ OpenedForWrite = {OutDir \o <<"/", "code.", "C", ".", "c">>,
                         OutDir \o <<"/", "code.", "C_IDA", ".", "c">>}

\* C10: when a call into an external collaborator returns or fails, the
\* handler has opened no output file yet; a failed call ends the run with
\* every file as it was
C10_CollaboratorsBeforeOutput ==
    [][(calls' # calls \/ (err = "none" /\ err' = "CollaboratorError"))
        => /\ OpenedForWrite = {}
           /\ fs = InitFs
           /\ fs' = InitFs
           /\ err' = "CollaboratorError" => pc' = "exit"]_vars

C10_Witness ==
    /\ Ran(docgen)
    /\ "tmpdoc2html" \in calls
    /\ OpenedForWrite = {IndexHtml}
    /\ Finished

====
